---- MODULE Spec2Model ----
(***************************************************************************)
(* Model of the FPS Survival mock API (Express server).  The four          *)
(* in-memory Maps are the state; each route handler is one atomic action   *)
(* (Node runs a synchronous handler to completion).  The last request and  *)
(* the response it produced are kept so that properties of responses can   *)
(* be stated.                                                              *)
(***************************************************************************)
EXTENDS Integers, Sequences, FiniteSets, TLC

\* ---------------------------------------------------------------- bounds
MaxPlayers == 2       \* players created in one run
MaxEnemies == 1       \* enemies spawned in one run
MaxRequests == 4      \* requests of one run, any client (Spec)
MaxVolley == 7        \* requests of one run, one persistent client (SpecVolley)

\* ------------------------------------------------------- JavaScript values
\* The JavaScript value undefined (a missing body field, a failed Map.get).
Undefined == "<undefined>"

\* String(v), as a template literal applies it to a string or to undefined.
ToStr(v) == IF v = Undefined THEN "undefined" ELSE v

DigitChars == <<"0", "1", "2", "3", "4", "5", "6", "7", "8", "9">>

\* String(n) for a non-negative integer n.
RECURSIVE NumToStr(_)
NumToStr(n) ==
  IF n < 10 THEN DigitChars[n + 1]
  ELSE NumToStr(n \div 10) \o DigitChars[(n % 10) + 1]

\* a || b on strings: undefined and the empty string are falsy.
OrElse(a, b) == IF a = Undefined \/ a = "" THEN b ELSE a

Min(a, b) == IF a < b THEN a ELSE b
Max(a, b) == IF a > b THEN a ELSE b

\* Map.has, Map.set, Map.size, new Map()
MapHas(m, k) == k \in DOMAIN m
MapSet(m, k, v) == [x \in (DOMAIN m) \cup {k} |-> IF x = k THEN v ELSE m[x]]
MapSize(m) == Cardinality(DOMAIN m)
EmptyMap == [x \in {} |-> Undefined]

\* JSON.stringify drops a field whose value is undefined.
JsonField(name, v) == IF v = Undefined THEN EmptyMap ELSE [f \in {name} |-> v]

\* Math.floor(r * n) for a draw r = k/10000 of Math.random()
FloorTimes(k, n) == (k * n) \div 10000

\* x.toFixed(2), for x = k/100
ToFixed2(k) ==
  NumToStr(k \div 100) \o "." \o DigitChars[((k % 100) \div 10) + 1]
    \o DigitChars[(k % 10) + 1]

\* ------------------------------------------------------------ environment
HexChars == <<"0", "1", "2", "3", "4", "5", "6", "7",
              "8", "9", "a", "b", "c", "d", "e", "f">>

\* The i-th identifier the uuid library hands out (36 characters).
Uuid(i) ==
  HexChars[(i % 16) + 1] \o "c9e1f07-5b2d-4a6e-9f3" \o HexChars[((7 * i) % 16) + 1]
    \o "-00000000000" \o HexChars[((3 * i) % 16) + 1]

UuidPool == {Uuid(i) : i \in 1..(MaxPlayers + MaxEnemies)}

\* Values of new Date().toISOString(); the wall clock is an input.
Timestamps == {"2025-01-01T00:00:00.000Z"}

\* Values of Math.random(), in units of 1/10000, at each place it is drawn.
AccuracyDraws == {3000, 3001}
TypeDraws == {0, 2500, 5000, 9999}
HealthDraws == {0, 9999}
CoordDraws == {5000}
GrenadeDraws == {0, 9999}

\* Request inputs of the clients of Spec.
PathIds == UuidPool \cup {"does-not-exist"}
NameInputs == {Undefined, "", "TestPlayer"}
WeaponInputs == {Undefined, "", "pistol", "rifle", "shotgun", "sniper", "bazooka"}
TargetInputs == {Undefined, "enemy_7"}
ItemInputs == {Undefined, "medical_kit", "grenade", "ammo_box", "bandage"}
UnmatchedPaths == {"/api/unknown"}

\* The item types the use-item handler knows.
ItemTypes == {"medical_kit", "grenade", "ammo_box"}

\* Request inputs of the persistent clients of SpecVolley: one player uses
\* every operation, a second one shoots as well.
VolleyIds == {Uuid(1), "does-not-exist"}
VolleyShooters == VolleyIds \cup {Uuid(2)}
VolleyNames == {Undefined}
VolleyWeapons == {Undefined, "sniper", "bazooka"}
VolleyTargets == {Undefined}
VolleyItems == {"medical_kit", "grenade", "ammo_box"}

\* ------------------------------------------------------------------ state
\* players, weapons, enemies, inventory: the four Maps of the server.
\* req, res: the request being answered and its response, until it is sent.
\* nreq: the number of requests accepted so far.
\* hist: history of the responses sent (not part of the server): how many
\*       players were created and enemies spawned, how many shots each
\*       weapon fired, how many items and level-ups each player was granted.
VARIABLES players, weapons, enemies, inventory, req, res, nreq, hist

vars == <<players, weapons, enemies, inventory, req, res, nreq, hist>>
stores == <<players, weapons, enemies, inventory>>

\* weapons.set(...) at startup
WeaponSeed ==
  [w \in {"pistol", "rifle", "shotgun", "sniper"} |->
     CASE w = "pistol"  -> [id |-> "pistol", name |-> "Pistola 9mm", damage |-> 25, ammo |-> 15]
       [] w = "rifle"   -> [id |-> "rifle", name |-> "Rifle de Asalto", damage |-> 45, ammo |-> 30]
       [] w = "shotgun" -> [id |-> "shotgun", name |-> "Escopeta", damage |-> 60, ammo |-> 8]
       [] w = "sniper"  -> [id |-> "sniper", name |-> "Rifle de Francotirador", damage |-> 80, ammo |-> 5]]

NoRequest == [op |-> "none"]
NoResponse == [status |-> 0, body |-> EmptyMap]

Init ==
  /\ players = EmptyMap
  /\ weapons = WeaponSeed
  /\ enemies = EmptyMap
  /\ inventory = EmptyMap
  /\ req = NoRequest
  /\ res = NoResponse
  /\ nreq = 0
  /\ hist = [created |-> 0,
             spawned |-> 0,
             shots |-> [w \in DOMAIN WeaponSeed |-> 0],
             uses |-> [k \in PathIds \X ItemTypes |-> 0],
             levelUps |-> [p \in PathIds |-> 0]]

\* The server takes one more request when it is not answering one.
Accept(limit) ==
  /\ req = NoRequest
  /\ nreq < limit
  /\ nreq' = nreq + 1

\* Variant of uuidv4: the generator repeats its first identifier.
uuidv4Repeating == Uuid(1)

\* uuidv4(): an identifier never handed out before.
uuidv4 == Uuid(MapSize(players) + MapSize(enemies) + 1)

\* Variant of Fail: the body carries the message only.
FailNoFlag(status, message) ==
  [status |-> status, body |-> [message |-> message]]

\* res.status(status).json({ success: false, message })
Fail(status, message) ==
  [status |-> status, body |-> [success |-> FALSE, message |-> message]]

\* The error-handling middleware: a handler threw.
InternalError(message) ==
  [status |-> 500,
   body |-> [success |-> FALSE, message |-> "Internal Server Error", error |-> message]]

\* ---------------------------------------------------------------- handlers
\* GET /api/health
HealthCheckHandler ==
  /\ \E now \in Timestamps :
       res' = [status |-> 200,
               body |-> [status |-> "ok",
                         message |-> "FPS Survival API is running",
                         timestamp |-> now,
                         version |-> "1.0.0"]]
  /\ req' = [op |-> "health"]
  /\ UNCHANGED stores

\* Variant of NewPlayer: health: 50.
NewPlayerHealth50(playerId, name, now) ==
  [id |-> playerId,
   name |-> OrElse(name, "Player_" \o SubSeq(playerId, 1, 8)),
   level |-> 1,
   experience |-> 0,
   health |-> 50,
   armor |-> 50,
   position |-> [x |-> 0, y |-> 0, z |-> 0],
   weapons |-> <<"pistol">>,
   createdAt |-> now]

\* Variant of NewPlayer: playerId.substring(0, 7) in the default name.
NewPlayerSubstr7(playerId, name, now) ==
  [id |-> playerId,
   name |-> OrElse(name, "Player_" \o SubSeq(playerId, 1, 7)),
   level |-> 1,
   experience |-> 0,
   health |-> 100,
   armor |-> 50,
   position |-> [x |-> 0, y |-> 0, z |-> 0],
   weapons |-> <<"pistol">>,
   createdAt |-> now]

\* newPlayer of POST /api/players
NewPlayer(playerId, name, now) ==
  [id |-> playerId,
   name |-> OrElse(name, "Player_" \o SubSeq(playerId, 1, 8)),
   level |-> 1,
   experience |-> 0,
   health |-> 100,
   armor |-> 50,
   position |-> [x |-> 0, y |-> 0, z |-> 0],
   weapons |-> <<"pistol">>,
   createdAt |-> now]

\* Variant of NewInventory: the inventory starts with one medical kit.
NewInventoryOneKit(playerId) ==
  [playerId |-> playerId, medical_kits |-> 1, ammo_boxes |-> 5, grenades |-> 2]

NewInventory(playerId) ==
  [playerId |-> playerId, medical_kits |-> 3, ammo_boxes |-> 5, grenades |-> 2]

\* Variant of CreatePlayerHandler: the inventory.set call is missing.
CreatePlayerHandlerNoInventory(name) ==
  /\ \E now \in Timestamps :
       LET playerId == uuidv4
           newPlayer == NewPlayer(playerId, name, now)
       IN /\ players' = MapSet(players, playerId, newPlayer)
          /\ res' = [status |-> 201,
                     body |-> [success |-> TRUE,
                               player |-> newPlayer,
                               message |-> "Player created successfully"]]
  /\ req' = [op |-> "createPlayer", name |-> name]
  /\ UNCHANGED <<weapons, enemies, inventory>>

\* Variant of CreatePlayerHandler: the players.set call is missing.
CreatePlayerHandlerInventoryOnly(name) ==
  /\ \E now \in Timestamps :
       LET playerId == uuidv4
           newPlayer == NewPlayer(playerId, name, now)
       IN /\ inventory' = MapSet(inventory, playerId, NewInventory(playerId))
          /\ res' = [status |-> 201,
                     body |-> [success |-> TRUE,
                               player |-> newPlayer,
                               message |-> "Player created successfully"]]
  /\ req' = [op |-> "createPlayer", name |-> name]
  /\ UNCHANGED <<weapons, enemies, players>>

\* Variant of CreatePlayerHandler: the new player replaces the stored ones.
CreatePlayerHandlerSingleSlot(name) ==
  /\ \E now \in Timestamps :
       LET playerId == uuidv4
           newPlayer == NewPlayer(playerId, name, now)
       IN /\ players' = MapSet(EmptyMap, playerId, newPlayer)
          /\ inventory' = MapSet(inventory, playerId, NewInventory(playerId))
          /\ res' = [status |-> 201,
                     body |-> [success |-> TRUE,
                               player |-> newPlayer,
                               message |-> "Player created successfully"]]
  /\ req' = [op |-> "createPlayer", name |-> name]
  /\ UNCHANGED <<weapons, enemies>>

\* POST /api/players
CreatePlayerHandler(name) ==
  /\ \E now \in Timestamps :
       LET playerId == uuidv4
           newPlayer == NewPlayer(playerId, name, now)
       IN /\ players' = MapSet(players, playerId, newPlayer)
          /\ inventory' = MapSet(inventory, playerId, NewInventory(playerId))
          /\ res' = [status |-> 201,
                     body |-> [success |-> TRUE,
                               player |-> newPlayer,
                               message |-> "Player created successfully"]]
  /\ req' = [op |-> "createPlayer", name |-> name]
  /\ UNCHANGED <<weapons, enemies>>

\* GET /api/players/:playerId
GetPlayerHandler(playerId) ==
  /\ req' = [op |-> "getPlayer", playerId |-> playerId]
  /\ IF ~MapHas(players, playerId)
     THEN res' = Fail(404, "Player not found")
     ELSE res' = [status |-> 200,
                  body |-> [success |-> TRUE,
                            player |-> players[playerId]]
                             @@ (IF MapHas(inventory, playerId)
                                 THEN [inventory |-> inventory[playerId]]
                                 ELSE EmptyMap)]
  /\ UNCHANGED stores

\* Variant of Fire: the decrement is not floored at zero.
FireUnfloored(weapon) == [weapon EXCEPT !.ammo = weapon.ammo - 1]

\* Variant of Fire: a shot is counted twice.
FireDouble(weapon) == [weapon EXCEPT !.ammo = Max(0, weapon.ammo - 2)]

\* Variant of Fire: the decrement is applied to the damage field.
FireWrongField(weapon) == [weapon EXCEPT !.damage = Max(0, weapon.damage - 1)]

\* weapon.ammo = Math.max(0, weapon.ammo - 1)
Fire(weapon) == [weapon EXCEPT !.ammo = Max(0, weapon.ammo - 1)]

\* Variant of ResolveWeapon: weaponId ?? 'pistol', only undefined defaults.
ResolveWeaponNullish(weaponId) == IF weaponId = Undefined THEN "pistol" ELSE weaponId

\* weapons.get(weaponId || 'pistol'): the key looked up
ResolveWeapon(weaponId) == OrElse(weaponId, "pistol")

\* Variant of ShootHandler: the weapon is looked up before the player.
ShootHandlerWeaponFirst(playerId, weaponId, targetEnemyId) ==
  /\ req' = [op |-> "shoot", playerId |-> playerId, weaponId |-> weaponId,
             targetEnemyId |-> targetEnemyId]
  /\ IF ~MapHas(weapons, ResolveWeapon(weaponId))
     THEN /\ res' = Fail(400, "Weapon not found")
          /\ UNCHANGED stores
     ELSE IF ~MapHas(players, playerId)
     THEN /\ res' = Fail(404, "Player not found")
          /\ UNCHANGED stores
     ELSE \E accuracy \in AccuracyDraws, now \in Timestamps :
            LET weapon == weapons[ResolveWeapon(weaponId)]
                isHit == accuracy > 3000
                result ==
                  [playerId |-> playerId,
                   weaponId |-> weapon.id,
                   weaponName |-> weapon.name,
                   damage |-> weapon.damage,
                   hit |-> isHit,
                   accuracy |-> ToFixed2(accuracy),
                   timestamp |-> now]
                    @@ JsonField("targetEnemyId", targetEnemyId)
            IN /\ weapons' = MapSet(weapons, weapon.id, Fire(weapon))
               /\ res' = [status |-> 200,
                          body |-> [success |-> TRUE, result |-> result]]
               /\ UNCHANGED <<players, enemies, inventory>>

\* Variant of ShootHandler: a weapon with no ammo left is refused.
ShootHandlerNeedsAmmo(playerId, weaponId, targetEnemyId) ==
  /\ req' = [op |-> "shoot", playerId |-> playerId, weaponId |-> weaponId,
             targetEnemyId |-> targetEnemyId]
  /\ IF ~MapHas(players, playerId)
     THEN /\ res' = Fail(404, "Player not found")
          /\ UNCHANGED stores
     ELSE IF ~MapHas(weapons, ResolveWeapon(weaponId))
     THEN /\ res' = Fail(400, "Weapon not found")
          /\ UNCHANGED stores
     ELSE IF weapons[ResolveWeapon(weaponId)].ammo = 0
     THEN /\ res' = Fail(400, "Out of ammo")
          /\ UNCHANGED stores
     ELSE \E accuracy \in AccuracyDraws, now \in Timestamps :
            LET weapon == weapons[ResolveWeapon(weaponId)]
                isHit == accuracy > 3000
                result ==
                  [playerId |-> playerId,
                   weaponId |-> weapon.id,
                   weaponName |-> weapon.name,
                   damage |-> weapon.damage,
                   hit |-> isHit,
                   accuracy |-> ToFixed2(accuracy),
                   timestamp |-> now]
                    @@ JsonField("targetEnemyId", targetEnemyId)
            IN /\ weapons' = MapSet(weapons, weapon.id, Fire(weapon))
               /\ res' = [status |-> 200,
                          body |-> [success |-> TRUE, result |-> result]]
               /\ UNCHANGED <<players, enemies, inventory>>

\* Variant of ShootHandler: a target that is no stored enemy is refused, and
\* a stored target takes the damage of a hit.
ShootHandlerTargetChecked(playerId, weaponId, targetEnemyId) ==
  /\ req' = [op |-> "shoot", playerId |-> playerId, weaponId |-> weaponId,
             targetEnemyId |-> targetEnemyId]
  /\ IF ~MapHas(players, playerId)
     THEN /\ res' = Fail(404, "Player not found")
          /\ UNCHANGED stores
     ELSE IF ~MapHas(weapons, ResolveWeapon(weaponId))
     THEN /\ res' = Fail(400, "Weapon not found")
          /\ UNCHANGED stores
     ELSE IF targetEnemyId # Undefined /\ ~MapHas(enemies, targetEnemyId)
     THEN /\ res' = Fail(404, "Enemy not found")
          /\ UNCHANGED stores
     ELSE \E accuracy \in AccuracyDraws, now \in Timestamps :
            LET weapon == weapons[ResolveWeapon(weaponId)]
                isHit == accuracy > 3000
                result ==
                  [playerId |-> playerId,
                   weaponId |-> weapon.id,
                   weaponName |-> weapon.name,
                   damage |-> weapon.damage,
                   hit |-> isHit,
                   accuracy |-> ToFixed2(accuracy),
                   timestamp |-> now]
                    @@ JsonField("targetEnemyId", targetEnemyId)
            IN /\ weapons' = MapSet(weapons, weapon.id, Fire(weapon))
               /\ enemies' =
                    IF targetEnemyId # Undefined /\ isHit
                    THEN MapSet(enemies, targetEnemyId,
                           [enemies[targetEnemyId] EXCEPT
                              !.health = Max(0, @ - weapon.damage)])
                    ELSE enemies
               /\ res' = [status |-> 200,
                          body |-> [success |-> TRUE, result |-> result]]
               /\ UNCHANGED <<players, inventory>>

\* POST /api/players/:playerId/shoot
ShootHandler(playerId, weaponId, targetEnemyId) ==
  /\ req' = [op |-> "shoot", playerId |-> playerId, weaponId |-> weaponId,
             targetEnemyId |-> targetEnemyId]
  /\ IF ~MapHas(players, playerId)
     THEN /\ res' = Fail(404, "Player not found")
          /\ UNCHANGED stores
     ELSE IF ~MapHas(weapons, ResolveWeapon(weaponId))
     THEN /\ res' = Fail(400, "Weapon not found")
          /\ UNCHANGED stores
     ELSE \E accuracy \in AccuracyDraws, now \in Timestamps :
            LET weapon == weapons[ResolveWeapon(weaponId)]
                isHit == accuracy > 3000
                result ==
                  [playerId |-> playerId,
                   weaponId |-> weapon.id,
                   weaponName |-> weapon.name,
                   damage |-> weapon.damage,
                   hit |-> isHit,
                   accuracy |-> ToFixed2(accuracy),
                   timestamp |-> now]
                    @@ JsonField("targetEnemyId", targetEnemyId)
            IN /\ weapons' = MapSet(weapons, weapon.id, Fire(weapon))
               /\ res' = [status |-> 200,
                          body |-> [success |-> TRUE, result |-> result]]
               /\ UNCHANGED <<players, enemies, inventory>>

enemyTypes == <<"Zombie", "Mutant", "Infected", "Raider">>

\* Variant of EnemyHealth: Math.floor(Math.random() * 100) + 20.
EnemyHealthWide(r) == FloorTimes(r, 100) + 20

\* Math.floor(Math.random() * 80) + 20, for Math.random() = r/10000
EnemyHealth(r) == FloorTimes(r, 80) + 20

\* POST /api/enemies/spawn
SpawnEnemyHandler ==
  /\ \E rt \in TypeDraws, rh \in HealthDraws,
        rx \in CoordDraws, ry \in CoordDraws, rz \in CoordDraws,
        now \in Timestamps :
       LET enemyId == uuidv4
           randomType == enemyTypes[FloorTimes(rt, Len(enemyTypes)) + 1]
           newEnemy ==
             [id |-> enemyId,
              type |-> randomType,
              health |-> EnemyHealth(rh),
              position |-> [x |-> rx \div 100, y |-> ry \div 100, z |-> rz \div 100],
              spawnedAt |-> now]
       IN /\ enemies' = MapSet(enemies, enemyId, newEnemy)
          /\ res' = [status |-> 201,
                     body |-> [success |-> TRUE,
                               enemy |-> newEnemy,
                               message |-> randomType \o " spawned successfully"]]
  /\ req' = [op |-> "spawnEnemy"]
  /\ UNCHANGED <<players, weapons, inventory>>

\* Variant of GetInventoryHandler: the reply carries the counts of a new
\* inventory instead of the stored ones.
GetInventoryHandlerAsNew(playerId) ==
  /\ req' = [op |-> "getInventory", playerId |-> playerId]
  /\ IF ~MapHas(inventory, playerId)
     THEN res' = Fail(404, "Inventory not found")
     ELSE res' = [status |-> 200,
                  body |-> [success |-> TRUE, inventory |-> NewInventory(playerId)]]
  /\ UNCHANGED stores

\* GET /api/players/:playerId/inventory
GetInventoryHandler(playerId) ==
  /\ req' = [op |-> "getInventory", playerId |-> playerId]
  /\ IF ~MapHas(inventory, playerId)
     THEN res' = Fail(404, "Inventory not found")
     ELSE res' = [status |-> 200,
                  body |-> [success |-> TRUE, inventory |-> inventory[playerId]]]
  /\ UNCHANGED stores

\* Variant of Heal: the sum is not capped at 100.
HealUncapped(player) == [player EXCEPT !.health = player.health + 50]

\* Variant of Heal: Math.min(50, player.health + 100), the constants exchanged.
HealSwapped(player) == [player EXCEPT !.health = Min(50, player.health + 100)]

\* player.health = Math.min(100, player.health + 50)
Heal(player) == [player EXCEPT !.health = Min(100, player.health + 50)]

\* Variant of ItemReply: the status is 200 whatever the outcome.
ItemReplyAlwaysOk(result) == [status |-> 200, body |-> result]

\* Variant of ItemReply: the two statuses are exchanged.
ItemReplyInverted(result) ==
  [status |-> IF result.success THEN 400 ELSE 200, body |-> result]

\* res.status(result.success ? 200 : 400).json(result)
ItemReply(result) ==
  [status |-> IF result.success THEN 200 ELSE 400, body |-> result]

\* Variant of Available: the test is count >= 0.
AvailableAtZero(count) == count >= 0

\* inv.medical_kits > 0, inv.grenades > 0, inv.ammo_boxes > 0
Available(count) == count > 0

\* Variant of GrenadeDamage: Math.ceil(Math.random() * 100) + 31.
GrenadeDamageCeil(r) == ((r * 100 + 9999) \div 10000) + 31

\* Math.floor(Math.random() * 100) + 30, for Math.random() = r/10000
GrenadeDamage(r) == FloorTimes(r, 100) + 30

\* POST /api/players/:playerId/use-item
UseItemHandler(playerId, itemType) ==
  /\ req' = [op |-> "useItem", playerId |-> playerId, itemType |-> itemType]
  /\ IF ~MapHas(inventory, playerId)
     THEN /\ res' = Fail(404, "Inventory not found")
          /\ UNCHANGED stores
     ELSE
       LET inv == inventory[playerId]
           base == [playerId |-> playerId] @@ JsonField("itemUsed", itemType)
       IN
       IF itemType = "medical_kit" /\ Available(inv.medical_kits)
       THEN /\ inventory' = MapSet(inventory, playerId,
                              [inv EXCEPT !.medical_kits = inv.medical_kits - 1])
            /\ IF ~MapHas(players, playerId)
               THEN \* players.get gave undefined: reading player.health throws
                    /\ res' = InternalError("Cannot read properties of undefined")
                    /\ UNCHANGED <<players, weapons, enemies>>
               ELSE LET player == Heal(players[playerId]) IN
                    /\ players' = MapSet(players, playerId, player)
                    /\ res' = ItemReply(base @@
                         [success |-> TRUE,
                          message |-> "Medical kit used. Health restored to "
                                        \o NumToStr(player.health),
                          playerHealth |-> player.health])
                    /\ UNCHANGED <<weapons, enemies>>
       ELSE IF itemType = "grenade" /\ Available(inv.grenades)
       THEN /\ inventory' = MapSet(inventory, playerId,
                              [inv EXCEPT !.grenades = inv.grenades - 1])
            /\ \E r \in GrenadeDraws :
                 res' = ItemReply(base @@
                   [success |-> TRUE,
                    message |-> "Grenade thrown! Damage radius: 20m",
                    damageCaused |-> GrenadeDamage(r)])
            /\ UNCHANGED <<players, weapons, enemies>>
       ELSE IF itemType = "ammo_box" /\ Available(inv.ammo_boxes)
       THEN /\ inventory' = MapSet(inventory, playerId,
                              [inv EXCEPT !.ammo_boxes = inv.ammo_boxes - 1])
            /\ res' = ItemReply(base @@
                 [success |-> TRUE,
                  message |-> "Ammo resupplied",
                  ammoRestored |-> 60])
            /\ UNCHANGED <<players, weapons, enemies>>
       ELSE /\ res' = ItemReply(base @@
                 [success |-> FALSE,
                  message |-> "No " \o ToStr(itemType) \o " available in inventory"])
            /\ UNCHANGED stores

\* Variant of Promote: player.level = player.level++ leaves the level as it was.
PromoteNoIncrement(player) ==
  [player EXCEPT !.experience = 0, !.health = 100, !.armor = 50]

\* Variant of Promote: the level stops at 3.
PromoteCapped(player) ==
  [player EXCEPT !.level = Min(3, player.level + 1),
                 !.experience = 0,
                 !.health = 100,
                 !.armor = 50]

\* Variant of Promote: player.armor = 100.
PromoteFullArmor(player) ==
  [player EXCEPT !.level = player.level + 1,
                 !.experience = 0,
                 !.health = 100,
                 !.armor = 100]

\* player.level++; player.experience = 0; player.health = 100; player.armor = 50
Promote(player) ==
  [player EXCEPT !.level = player.level + 1,
                 !.experience = 0,
                 !.health = 100,
                 !.armor = 50]

\* POST /api/players/:playerId/level-up
LevelUpHandler(playerId) ==
  /\ req' = [op |-> "levelUp", playerId |-> playerId]
  /\ IF ~MapHas(players, playerId)
     THEN /\ res' = Fail(404, "Player not found")
          /\ UNCHANGED players
     ELSE LET player == Promote(players[playerId]) IN
          /\ players' = MapSet(players, playerId, player)
          /\ res' = [status |-> 200,
                     body |-> [success |-> TRUE,
                               message |-> "Player leveled up to "
                                             \o NumToStr(player.level) \o "!",
                               player |-> player]]
  /\ UNCHANGED <<weapons, enemies, inventory>>

\* Variant of GetStatsHandler: the two sizes are taken from each other's Map.
GetStatsHandlerCrossed ==
  /\ \E now \in Timestamps :
       res' = [status |-> 200,
               body |-> [success |-> TRUE,
                         stats |-> [totalPlayers |-> MapSize(enemies),
                                    totalEnemies |-> MapSize(players),
                                    totalWeapons |-> MapSize(weapons),
                                    serverTime |-> now,
                                    uptime |-> "process.uptime()",
                                    memory |-> "process.memoryUsage()"]]]
  /\ req' = [op |-> "getStats"]
  /\ UNCHANGED stores

\* GET /api/stats
GetStatsHandler ==
  /\ \E now \in Timestamps :
       res' = [status |-> 200,
               body |-> [success |-> TRUE,
                         stats |-> [totalPlayers |-> MapSize(players),
                                    totalEnemies |-> MapSize(enemies),
                                    totalWeapons |-> MapSize(weapons),
                                    serverTime |-> now,
                                    uptime |-> "process.uptime()",
                                    memory |-> "process.memoryUsage()"]]]
  /\ req' = [op |-> "getStats"]
  /\ UNCHANGED stores

\* The keys of the weapons Map in insertion order.
WeaponOrder == <<"pistol", "rifle", "shotgun", "sniper">>

\* GET /api/weapons
ListWeaponsHandler ==
  /\ LET weaponsList == [i \in 1..Len(WeaponOrder) |-> weapons[WeaponOrder[i]]] IN
       res' = [status |-> 200,
               body |-> [success |-> TRUE,
                         weapons |-> weaponsList,
                         total |-> Len(weaponsList)]]
  /\ req' = [op |-> "listWeapons"]
  /\ UNCHANGED stores

\* The catch-all middleware for a path that no route matches.
EndpointNotFoundHandler(path) ==
  /\ res' = [status |-> 404,
             body |-> [success |-> FALSE,
                       message |-> "Endpoint not found",
                       path |-> path]]
  /\ req' = [op |-> "unmatched", path |-> path]
  /\ UNCHANGED stores

\* The response has been written to the socket; the server is idle again.
Respond ==
  /\ req # NoRequest
  /\ req' = NoRequest
  /\ res' = NoResponse
  /\ UNCHANGED <<stores, nreq, hist>>

\* The history records the response just produced.
Tally ==
  hist' =
    CASE req'.op = "createPlayer" /\ res'.status = 201 ->
           [hist EXCEPT !.created = @ + 1]
      [] req'.op = "spawnEnemy" /\ res'.status = 201 ->
           [hist EXCEPT !.spawned = @ + 1]
      [] req'.op = "shoot" /\ res'.status = 200 ->
           [hist EXCEPT !.shots[res'.body.result.weaponId] = @ + 1]
      [] req'.op = "useItem" /\ res'.status = 200 ->
           [hist EXCEPT !.uses[<<req'.playerId, req'.itemType>>] = @ + 1]
      [] req'.op = "levelUp" /\ res'.status = 200 ->
           [hist EXCEPT !.levelUps[req'.playerId] = @ + 1]
      [] OTHER -> hist

\* ------------------------------------------- requests of any client (Spec)
HealthCheck == Accept(MaxRequests) /\ HealthCheckHandler /\ Tally

CreatePlayer ==
  /\ Accept(MaxRequests)
  /\ MapSize(players) < MaxPlayers
  /\ \E name \in NameInputs : CreatePlayerHandler(name)
  /\ Tally

GetPlayer ==
  /\ Accept(MaxRequests)
  /\ \E playerId \in PathIds : GetPlayerHandler(playerId)
  /\ Tally

Shoot ==
  /\ Accept(MaxRequests)
  /\ \E playerId \in PathIds, weaponId \in WeaponInputs,
        targetEnemyId \in TargetInputs \cup DOMAIN enemies :
       ShootHandler(playerId, weaponId, targetEnemyId)
  /\ Tally

SpawnEnemy ==
  /\ Accept(MaxRequests)
  /\ MapSize(enemies) < MaxEnemies
  /\ SpawnEnemyHandler
  /\ Tally

GetInventory ==
  /\ Accept(MaxRequests)
  /\ \E playerId \in PathIds : GetInventoryHandler(playerId)
  /\ Tally

UseItem ==
  /\ Accept(MaxRequests)
  /\ \E playerId \in PathIds, itemType \in ItemInputs :
       UseItemHandler(playerId, itemType)
  /\ Tally

LevelUp ==
  /\ Accept(MaxRequests)
  /\ \E playerId \in PathIds : LevelUpHandler(playerId)
  /\ Tally

GetStats == Accept(MaxRequests) /\ GetStatsHandler /\ Tally

ListWeapons == Accept(MaxRequests) /\ ListWeaponsHandler /\ Tally

EndpointNotFound ==
  /\ Accept(MaxRequests)
  /\ \E path \in UnmatchedPaths : EndpointNotFoundHandler(path)
  /\ Tally

Next ==
  \/ HealthCheck
  \/ CreatePlayer
  \/ GetPlayer
  \/ Shoot
  \/ SpawnEnemy
  \/ GetInventory
  \/ UseItem
  \/ LevelUp
  \/ GetStats
  \/ ListWeapons
  \/ EndpointNotFound
  \/ Respond

Spec == Init /\ [][Next]_vars

\* ------------------------- requests of one persistent client (SpecVolley)
VolleyHealthCheck == Accept(MaxVolley) /\ HealthCheckHandler /\ Tally

VolleyCreatePlayer ==
  /\ Accept(MaxVolley)
  /\ MapSize(players) < MaxPlayers
  /\ \E name \in VolleyNames : CreatePlayerHandler(name)
  /\ Tally

VolleyGetPlayer ==
  /\ Accept(MaxVolley)
  /\ \E playerId \in VolleyIds : GetPlayerHandler(playerId)
  /\ Tally

VolleyShoot ==
  /\ Accept(MaxVolley)
  /\ \E playerId \in VolleyShooters, weaponId \in VolleyWeapons,
        targetEnemyId \in VolleyTargets :
       ShootHandler(playerId, weaponId, targetEnemyId)
  /\ Tally

VolleySpawnEnemy ==
  /\ Accept(MaxVolley)
  /\ MapSize(enemies) < MaxEnemies
  /\ SpawnEnemyHandler
  /\ Tally

VolleyGetInventory ==
  /\ Accept(MaxVolley)
  /\ \E playerId \in VolleyIds : GetInventoryHandler(playerId)
  /\ Tally

VolleyUseItem ==
  /\ Accept(MaxVolley)
  /\ \E playerId \in VolleyIds, itemType \in VolleyItems :
       UseItemHandler(playerId, itemType)
  /\ Tally

VolleyLevelUp ==
  /\ Accept(MaxVolley)
  /\ \E playerId \in VolleyIds : LevelUpHandler(playerId)
  /\ Tally

VolleyGetStats == Accept(MaxVolley) /\ GetStatsHandler /\ Tally

VolleyListWeapons == Accept(MaxVolley) /\ ListWeaponsHandler /\ Tally

VolleyNext ==
  \/ VolleyHealthCheck
  \/ VolleyCreatePlayer
  \/ VolleyGetPlayer
  \/ VolleyShoot
  \/ VolleySpawnEnemy
  \/ VolleyGetInventory
  \/ VolleyUseItem
  \/ VolleyLevelUp
  \/ VolleyGetStats
  \/ VolleyListWeapons
  \/ Respond

SpecVolley == Init /\ [][VolleyNext]_vars

\* ================================================================ properties
Catalog == {"pistol", "rifle", "shotgun", "sniper"}

\* A handler has just answered: the step from idle to a response in flight.
Answering(op) == req = NoRequest /\ req'.op = op

\* s occurs inside t
Mentions(t, s) ==
  \E i \in 1..(Len(t) - Len(s) + 1) : SubSeq(t, i, i + Len(s) - 1) = s

\* inv[itemType] for the three item types
CountOf(inv, itemType) ==
  CASE itemType = "medical_kit" -> inv.medical_kits
    [] itemType = "grenade" -> inv.grenades
    [] itemType = "ammo_box" -> inv.ammo_boxes

\* C1: the player store and the inventory store hold the same identifiers,
\* so Get player and Get inventory answer 404 for exactly the same ones:
\* Get player answers 404 exactly when the identifier has no inventory, and
\* Get inventory answers 404 exactly when the identifier has no player.
C1_SameIdentifiers ==
  /\ DOMAIN players = DOMAIN inventory
  /\ req.op = "getPlayer" =>
       (res.status = 404 <=> ~MapHas(inventory, req.playerId))
  /\ req.op = "getInventory" =>
       (res.status = 404 <=> ~MapHas(players, req.playerId))

C1_Witness ==
  /\ req.op = "getInventory"
  /\ res.status = 200
  /\ MapSize(players) = 2

\* C2: a Create player call, whatever the name input, adds exactly one player
\* under an identifier that was in neither store, adds the inventory under
\* the same identifier, and leaves every earlier player and inventory as it was.
C2_CreateAddsOneFresh ==
  [][Answering("createPlayer") =>
       LET id == res'.body.player.id IN
       /\ id \notin DOMAIN players
       /\ id \notin DOMAIN inventory
       /\ DOMAIN players' = (DOMAIN players) \cup {id}
       /\ DOMAIN inventory' = (DOMAIN inventory) \cup {id}
       /\ players'[id].id = id
       /\ inventory'[id].playerId = id
       /\ \A p \in DOMAIN players : players'[p] = players[p]
       /\ \A p \in DOMAIN inventory : inventory'[p] = inventory[p]]_vars

C2_Witness ==
  /\ req.op = "createPlayer"
  /\ req.name = Undefined
  /\ MapSize(players) = 2
  /\ hist.created = 2

\* C3: the player that Create player stores and returns has level 1,
\* experience 0, health 100, armor 50, position (0,0,0) and the weapon list
\* [pistol]; its inventory has 3 medical kits, 5 ammo boxes and 2 grenades;
\* the status is 201, whatever the server held before.
C3_FreshPlayerRecord ==
  req.op = "createPlayer" =>
    LET p == res.body.player IN
    /\ res.status = 201
    /\ players[p.id] = p
    /\ p.level = 1
    /\ p.experience = 0
    /\ p.health = 100
    /\ p.armor = 50
    /\ p.position = [x |-> 0, y |-> 0, z |-> 0]
    /\ p.weapons = <<"pistol">>
    /\ inventory[p.id].medical_kits = 3
    /\ inventory[p.id].ammo_boxes = 5
    /\ inventory[p.id].grenades = 2

C3_Witness ==
  /\ req.op = "createPlayer"
  /\ res.status = 201
  /\ \E q \in DOMAIN players :
       /\ players[q].level > 1
       /\ inventory[q].medical_kits < 3

\* C4 as stated: for an existing player, Shoot without a weapon identifier
\* fires the pistol, and Shoot with any supplied identifier outside the
\* catalog, the empty string included, answers 400 and changes nothing.
C4_Original ==
  [][(Answering("shoot") /\ MapHas(players, req'.playerId)) =>
       /\ req'.weaponId = Undefined =>
            /\ res'.status = 200
            /\ res'.body.result.weaponId = "pistol"
            /\ res'.body.result.weaponName = "Pistola 9mm"
            /\ weapons'["pistol"].ammo = Max(0, weapons["pistol"].ammo - 1)
            /\ \A w \in Catalog \ {"pistol"} : weapons'[w] = weapons[w]
       /\ (req'.weaponId # Undefined /\ req'.weaponId \notin Catalog) =>
            /\ res'.status = 400
            /\ res'.body.success = FALSE
            /\ UNCHANGED stores]_vars

\* C4 (amended): for an existing player, Shoot without a weapon identifier or
\* with the empty string fires the pistol (the result names the pistol and
\* only the pistol's ammo is decremented), and Shoot with any non-empty
\* identifier outside the catalog answers 400 with success=false and
\* changes nothing.
C4_DefaultAndUnknownWeapon ==
  [][(Answering("shoot") /\ MapHas(players, req'.playerId)) =>
       /\ req'.weaponId \in {Undefined, ""} =>
            /\ res'.status = 200
            /\ res'.body.result.weaponId = "pistol"
            /\ res'.body.result.weaponName = "Pistola 9mm"
            /\ weapons'["pistol"].ammo = Max(0, weapons["pistol"].ammo - 1)
            /\ \A w \in Catalog \ {"pistol"} : weapons'[w] = weapons[w]
       /\ req'.weaponId \notin ({Undefined, ""} \cup Catalog) =>
            /\ res'.status = 400
            /\ res'.body.success = FALSE
            /\ UNCHANGED stores]_vars

C4_Witness ==
  /\ req.op = "shoot"
  /\ req.weaponId = ""
  /\ res.status = 200
  /\ hist.shots["pistol"] = 1
  /\ weapons["pistol"].ammo = 14

\* C5: from one state to the next no weapon's ammo increases, none is ever
\* below zero, and only an answered Shoot changes any of them.
C5_AmmoNeverGrows ==
  [][/\ \A w \in Catalog :
          /\ weapons'[w].ammo <= weapons[w].ammo
          /\ weapons'[w].ammo >= 0
     /\ weapons' # weapons => (req'.op = "shoot" /\ res'.status = 200)]_vars

C5_Witness ==
  /\ req.op = "shoot"
  /\ hist.shots["sniper"] = 6
  /\ weapons["sniper"].ammo = 0

\* C6: every player's health is within 0..100 and armor is not negative,
\* every weapon's ammo and every inventory count is not negative, and a
\* medical kit, however often used, reports a health of at most 100.
C6_CountsInRange ==
  /\ \A p \in DOMAIN players :
       /\ players[p].health >= 0
       /\ players[p].health <= 100
       /\ players[p].armor >= 0
  /\ \A w \in DOMAIN weapons : weapons[w].ammo >= 0
  /\ \A p \in DOMAIN inventory :
       /\ inventory[p].medical_kits >= 0
       /\ inventory[p].ammo_boxes >= 0
       /\ inventory[p].grenades >= 0
  /\ (req.op = "useItem" /\ req.itemType = "medical_kit" /\ res.status = 200) =>
       res.body.playerHealth <= 100

C6_Witness ==
  /\ req.op = "useItem"
  /\ req.itemType = "medical_kit"
  /\ res.status = 200
  /\ hist.uses[<<req.playerId, "medical_kit">>] = 3
  /\ inventory[req.playerId].medical_kits = 0

\* C7: for an existing player, Use inventory item with an item type whose
\* count is 0, or with one that is none of the three known types (an absent
\* one included), answers 400 with success=false and a message that mentions
\* the requested type, and changes no store.
C7_UnavailableItem ==
  [][(/\ Answering("useItem")
      /\ MapHas(players, req'.playerId)
      /\ \/ req'.itemType \notin ItemTypes
         \/ CountOf(inventory[req'.playerId], req'.itemType) = 0) =>
       /\ res'.status = 400
       /\ res'.body.success = FALSE
       /\ Mentions(res'.body.message,
                   IF req'.itemType = Undefined THEN "undefined" ELSE req'.itemType)
       /\ UNCHANGED stores]_vars

C7_Witness ==
  /\ req.op = "useItem"
  /\ req.itemType = "grenade"
  /\ res.status = 400
  /\ MapHas(inventory, req.playerId)
  /\ inventory[req.playerId].grenades = 0

\* C8: for an existing player, Level up raises the level by exactly 1, sets
\* experience 0, health 100 and armor 50, leaves the player's other fields,
\* the other players, the inventories, the weapons and the enemies as they
\* were, and answers 200 with the updated player.
C8_LevelUp ==
  [][(Answering("levelUp") /\ MapHas(players, req'.playerId)) =>
       LET id == req'.playerId
           old == players[id]
           new == players'[id]
       IN /\ res'.status = 200
          /\ res'.body.player = new
          /\ new.level = old.level + 1
          /\ new.experience = 0
          /\ new.health = 100
          /\ new.armor = 50
          /\ new.id = old.id
          /\ new.name = old.name
          /\ new.position = old.position
          /\ new.weapons = old.weapons
          /\ new.createdAt = old.createdAt
          /\ DOMAIN players' = DOMAIN players
          /\ \A p \in DOMAIN players \ {id} : players'[p] = players[p]
          /\ UNCHANGED <<inventory, weapons, enemies>>]_vars

C8_Witness ==
  /\ req.op = "levelUp"
  /\ res.status = 200
  /\ players[req.playerId].level = 3
  /\ MapSize(players) = 2

\* C9: for an identifier that is not in the player store, Get player, Shoot,
\* Get inventory, Use inventory item and Level up answer 404 with
\* success=false whatever the other inputs, and change no store.
C9_UnknownPlayer ==
  [][(/\ req = NoRequest
      /\ req'.op \in {"getPlayer", "shoot", "getInventory", "useItem", "levelUp"}
      /\ ~MapHas(players, req'.playerId)) =>
       /\ res'.status = 404
       /\ res'.body.success = FALSE
       /\ UNCHANGED stores]_vars

C9_Witness ==
  /\ req.op = "shoot"
  /\ req.weaponId = "bazooka"
  /\ res.status = 404
  /\ MapSize(players) = 1

TenOperations ==
  {"health", "createPlayer", "getPlayer", "shoot", "spawnEnemy",
   "getInventory", "useItem", "levelUp", "getStats", "listWeapons"}

\* C10 as stated: every response of each of the ten operations carries a
\* boolean success field.
C10_Original ==
  req.op \in TenOperations =>
    /\ "success" \in DOMAIN res.body
    /\ res.body.success \in BOOLEAN

\* C10 (amended): every response of the nine operations other than Health
\* check, on success and on failure, carries a boolean success field; the
\* Health check response carries no success field (its marker is status "ok").
C10_SuccessField ==
  /\ req.op \in TenOperations \ {"health"} =>
       /\ "success" \in DOMAIN res.body
       /\ res.body.success \in BOOLEAN
  /\ req.op = "health" =>
       /\ "success" \notin DOMAIN res.body
       /\ res.body.status = "ok"

C10_Witness ==
  /\ req.op = "useItem"
  /\ res.status = 404
  /\ res.body.success = FALSE

\* The statuses the interface table lists for each operation.
StatusTable ==
  [op \in TenOperations |->
     CASE op \in {"health", "getStats", "listWeapons"} -> {200}
       [] op \in {"createPlayer", "spawnEnemy"} -> {201}
       [] op \in {"getPlayer", "getInventory", "levelUp"} -> {200, 404}
       [] op \in {"shoot", "useItem"} -> {200, 400, 404}]

\* C11: Health check, Get stats and List weapons answer 200, Create player
\* and Spawn enemy answer 201, Get player, Get inventory and Level up answer
\* 200 or 404, Shoot and Use inventory item answer 200, 400 or 404; no
\* request is answered with 500.
C11_ListedStatuses ==
  /\ req.op \in TenOperations => res.status \in StatusTable[req.op]
  /\ res.status # 500

C11_Witness ==
  /\ req.op = "useItem"
  /\ req.itemType = "medical_kit"
  /\ res.status = 200
  /\ hist.created = 2
  /\ hist.spawned = 1

\* C12: for an existing player, the Use inventory item response has status
\* 200 exactly when its success flag is true and status 400 exactly when it
\* is false, and the flag is true exactly when one of the three inventory
\* counts went down by one (the other two, and on failure all three, stay).
C12_StatusFollowsSuccess ==
  [][(Answering("useItem") /\ MapHas(players, req'.playerId)) =>
       LET old == inventory[req'.playerId]
           new == inventory'[req'.playerId]
           Spent(t) ==
             /\ CountOf(new, t) = CountOf(old, t) - 1
             /\ \A u \in ItemTypes \ {t} : CountOf(new, u) = CountOf(old, u)
       IN /\ res'.status \in {200, 400}
          /\ res'.status = 200 <=> res'.body.success = TRUE
          /\ res'.status = 400 <=> res'.body.success = FALSE
          /\ res'.body.success = TRUE <=> (\E t \in ItemTypes : Spent(t))
          /\ res'.body.success = FALSE => new = old]_vars

C12_Witness ==
  /\ req.op = "useItem"
  /\ req.itemType = "ammo_box"
  /\ res.status = 200
  /\ res.body.success = TRUE
  /\ inventory[req.playerId].ammo_boxes = 4

\* The catalog as seeded: ammo, name and damage of each weapon.
SeedAmmo == [pistol |-> 15, rifle |-> 30, shotgun |-> 8, sniper |-> 5]
SeedName == [pistol |-> "Pistola 9mm", rifle |-> "Rifle de Asalto",
             shotgun |-> "Escopeta", sniper |-> "Rifle de Francotirador"]
SeedDamage == [pistol |-> 25, rifle |-> 45, shotgun |-> 60, sniper |-> 80]

\* C13: each weapon has one ammo counter shared by all players: after k
\* successful Shoot requests for weapon w, by whichever players and with any
\* other requests in between, the ammo of w, also as List weapons shows it,
\* is max(0, seeded ammo of w - k); every Shoot result carries the weapon's
\* seeded name and damage.
C13_SharedAmmoCounter ==
  /\ \A w \in Catalog :
       weapons[w].ammo = Max(0, SeedAmmo[w] - hist.shots[w])
  /\ req.op = "listWeapons" =>
       /\ {res.body.weapons[i].id : i \in 1..Len(res.body.weapons)} = Catalog
       /\ \A i \in 1..Len(res.body.weapons) :
            LET w == res.body.weapons[i].id IN
            res.body.weapons[i].ammo = Max(0, SeedAmmo[w] - hist.shots[w])
  /\ (req.op = "shoot" /\ res.status = 200) =>
       LET w == res.body.result.weaponId IN
       /\ w \in Catalog
       /\ res.body.result.weaponName = SeedName[w]
       /\ res.body.result.damage = SeedDamage[w]

C13_Witness ==
  /\ req.op = "shoot"
  /\ req.playerId = Uuid(2)
  /\ res.status = 200
  /\ res.body.result.weaponId = "sniper"
  /\ hist.shots["sniper"] = 5
  /\ weapons["sniper"].ammo = 0
  /\ MapSize(players) = 2

\* C14: the catalog always holds exactly pistol, rifle, shotgun and sniper
\* with their seeded identifier, name and damage, and List weapons answers
\* 200 with these four entries, each with its current ammo, and total = 4.
C14_CatalogFixed ==
  /\ DOMAIN weapons = Catalog
  /\ \A w \in Catalog :
       /\ weapons[w].id = w
       /\ weapons[w].name = SeedName[w]
       /\ weapons[w].damage = SeedDamage[w]
  /\ req.op = "listWeapons" =>
       /\ res.status = 200
       /\ res.body.total = 4
       /\ Len(res.body.weapons) = 4
       /\ \A w \in Catalog :
            \E i \in 1..Len(res.body.weapons) : res.body.weapons[i] = weapons[w]

C14_Witness ==
  /\ req.op = "listWeapons"
  /\ weapons["rifle"].ammo = 29
  /\ weapons["shotgun"].ammo = 7
  /\ res.body.weapons[2].ammo = 29

\* C15: for an existing player with health h and c > 0 medical kits, using a
\* medical kit answers 200 with success=true, leaves c - 1 kits and health
\* min(100, h + 50), reports that health, and leaves the ammo boxes and the
\* grenades; this also when h is 100 already.
C15_MedicalKit ==
  [][(/\ Answering("useItem")
      /\ req'.itemType = "medical_kit"
      /\ MapHas(players, req'.playerId)
      /\ inventory[req'.playerId].medical_kits > 0) =>
       LET id == req'.playerId
           h == players[id].health
           c == inventory[id].medical_kits
       IN /\ res'.status = 200
          /\ res'.body.success = TRUE
          /\ inventory'[id].medical_kits = c - 1
          /\ players'[id].health = (IF h + 50 > 100 THEN 100 ELSE h + 50)
          /\ res'.body.playerHealth = players'[id].health
          /\ inventory'[id].ammo_boxes = inventory[id].ammo_boxes
          /\ inventory'[id].grenades = inventory[id].grenades]_vars

C15_Witness ==
  /\ req.op = "useItem"
  /\ req.itemType = "medical_kit"
  /\ res.status = 200
  /\ res.body.playerHealth = 100
  /\ inventory[req.playerId].medical_kits = 1
  /\ inventory[req.playerId].grenades = 1

\* C16: a use-item request of type ammo_box or grenade answered with 200
\* takes one from that count of that player's inventory and changes nothing
\* else: the other counts, the other inventories, the weapons (ammo included),
\* the enemies and the players (health included) stay as they were. The
\* ammo_box reply carries ammoRestored = 60, the grenade reply a damageCaused
\* between 30 and 129.
C16_AmmoBoxAndGrenade ==
  [][(/\ Answering("useItem")
      /\ req'.itemType \in {"ammo_box", "grenade"}
      /\ res'.status = 200) =>
       LET id == req'.playerId
           inv == inventory[id]
       IN /\ res'.body.success = TRUE
          /\ weapons' = weapons
          /\ enemies' = enemies
          /\ players' = players
          /\ DOMAIN inventory' = DOMAIN inventory
          /\ \A p \in DOMAIN inventory \ {id} : inventory'[p] = inventory[p]
          /\ IF req'.itemType = "ammo_box"
             THEN /\ inv.ammo_boxes > 0
                  /\ inventory'[id] = [inv EXCEPT !.ammo_boxes = inv.ammo_boxes - 1]
                  /\ res'.body.ammoRestored = 60
             ELSE /\ inv.grenades > 0
                  /\ inventory'[id] = [inv EXCEPT !.grenades = inv.grenades - 1]
                  /\ res'.body.damageCaused \in 30..129]_vars

C16_Witness ==
  /\ req.op = "useItem"
  /\ req.itemType = "grenade"
  /\ res.status = 200
  /\ res.body.damageCaused = 129
  /\ inventory[req.playerId].grenades = 1
  /\ hist.uses[<<req.playerId, "ammo_box">>] = 1
  /\ inventory[req.playerId].ammo_boxes = 4

\* C17: a shoot request of an existing player with a weapon of the catalog is
\* answered with 200 whatever the target identifier is, a stored enemy or
\* not; the result returns a given target identifier as it came and has no
\* such field when none was given. Every shoot answered with 200 leaves the
\* players, the inventories and the enemies as they were, and of the weapons
\* changes at most the ammo of the one that was fired.
C17_ShootFrame ==
  [][Answering("shoot") =>
       LET w == IF req'.weaponId \in {Undefined, ""} THEN "pistol"
                ELSE req'.weaponId
           t == req'.targetEnemyId
       IN /\ (MapHas(players, req'.playerId) /\ w \in Catalog) =>
               res'.status = 200
          /\ res'.status = 200 =>
               /\ players' = players
               /\ inventory' = inventory
               /\ enemies' = enemies
               /\ DOMAIN weapons' = DOMAIN weapons
               /\ \A x \in DOMAIN weapons \ {w} : weapons'[x] = weapons[x]
               /\ weapons'[w] = [weapons[w] EXCEPT !.ammo = weapons'[w].ammo]
               /\ IF t = Undefined
                  THEN "targetEnemyId" \notin DOMAIN res'.body.result
                  ELSE /\ "targetEnemyId" \in DOMAIN res'.body.result
                       /\ res'.body.result.targetEnemyId = t]_vars

C17_Witness ==
  /\ req.op = "shoot"
  /\ req.targetEnemyId = "enemy_7"
  /\ ~MapHas(enemies, "enemy_7")
  /\ MapSize(enemies) = 1
  /\ res.status = 200
  /\ res.body.result.targetEnemyId = "enemy_7"
  /\ res.body.result.hit = TRUE

\* C18: every answer of Get stats carries totalPlayers = the number of Create
\* player calls made so far, totalEnemies = the number of Spawn enemy calls
\* made so far and totalWeapons = 4; and no step makes the number of stored
\* players or of stored enemies smaller, so the totals never decrease.
C18_StatsTotals ==
  [][/\ req'.op = "getStats" =>
          /\ res'.status = 200
          /\ res'.body.stats.totalPlayers = hist'.created
          /\ res'.body.stats.totalEnemies = hist'.spawned
          /\ res'.body.stats.totalWeapons = 4
     /\ hist'.created >= hist.created
     /\ hist'.spawned >= hist.spawned
     /\ MapSize(players') = hist'.created
     /\ MapSize(enemies') = hist'.spawned
     /\ MapSize(players') >= MapSize(players)
     /\ MapSize(enemies') >= MapSize(enemies)]_vars

C18_Witness ==
  /\ req.op = "getStats"
  /\ hist.created = 2
  /\ hist.spawned = 1
  /\ res.body.stats.totalPlayers = 2
  /\ res.body.stats.totalEnemies = 1
  /\ res.body.stats.totalWeapons = 4

\* C19: a player is never deleted. The identifier Create player returns is
\* stored with its inventory; no step of any client removes a stored player
\* or inventory; and a request for a stored player is answered 200 by Get
\* player, Get inventory and Level up, 200 by Shoot with a weapon of the
\* catalog, and 200 or 400 by Use inventory item. Hence every request that
\* comes after the Create player that returned its identifier is answered so.
C19_PlayerNeverDeleted ==
  [][/\ req'.op = "createPlayer" =>
          /\ res'.body.player.id \in DOMAIN players'
          /\ res'.body.player.id \in DOMAIN inventory'
     /\ DOMAIN players \subseteq DOMAIN players'
     /\ DOMAIN inventory \subseteq DOMAIN inventory'
     /\ \A p \in DOMAIN players :
          /\ p \in DOMAIN inventory
          /\ (req = NoRequest /\ req'.op \in {"getPlayer", "getInventory", "levelUp"}
                /\ req'.playerId = p) => res'.status = 200
          /\ (Answering("shoot") /\ req'.playerId = p
                /\ req'.weaponId \in Catalog) => res'.status = 200
          /\ (Answering("useItem") /\ req'.playerId = p) =>
                res'.status \in {200, 400}]_vars

C19_Witness ==
  /\ req.op = "getPlayer"
  /\ req.playerId = Uuid(1)
  /\ res.status = 200
  /\ MapSize(players) = 2
  /\ hist.levelUps[Uuid(2)] = 1
  /\ hist.created = 2

\* C20: when Create player has answered, the name stored under the returned
\* identifier is the name returned; for a request with no name or with the
\* empty name it is "Player_" followed by the first 8 characters of that
\* identifier, 15 characters in all, and for a request with a non-empty name
\* it is that name.
C20_DefaultName ==
  req.op = "createPlayer" =>
    LET id == res.body.player.id
        name == players[id].name
    IN /\ res.status = 201
       /\ res.body.player.name = name
       /\ IF req.name \in {Undefined, ""}
          THEN /\ Len(name) = 15
               /\ SubSeq(name, 1, 7) = "Player_"
               /\ \A i \in 1..8 : SubSeq(name, 7 + i, 7 + i) = SubSeq(id, i, i)
          ELSE name = req.name

C20_Witness ==
  /\ req.op = "createPlayer"
  /\ req.name = ""
  /\ res.body.player.id = Uuid(2)
  /\ res.body.player.name = "Player_2c9e1f07"
  /\ players[Uuid(1)].name = "TestPlayer"

\* The counts of a new inventory.
InitialCount == [medical_kit |-> 3, ammo_box |-> 5, grenade |-> 2]

\* C21: every use-item request runs as one step, and in any order of such
\* requests on one player each count of that player is, before and after every
\* step, the initial count (3 medical kits, 5 ammo boxes, 2 grenades) minus
\* the number of uses of that type answered with 200; that number is at most
\* the initial count; no step makes a count larger; and a use of a type whose
\* count is 0 is answered 400 and leaves the count 0, so it fails from then on.
C21_CountsFollowUses ==
  [][\A p \in DOMAIN inventory' : \A t \in ItemTypes :
       /\ CountOf(inventory'[p], t) = InitialCount[t] - hist'.uses[<<p, t>>]
       /\ hist'.uses[<<p, t>>] <= InitialCount[t]
       /\ hist'.uses[<<p, t>>] >= hist.uses[<<p, t>>]
       /\ p \in DOMAIN inventory =>
            /\ CountOf(inventory'[p], t) <= CountOf(inventory[p], t)
            /\ (CountOf(inventory[p], t) = 0 /\ Answering("useItem")
                  /\ req'.playerId = p /\ req'.itemType = t) =>
                 /\ res'.status = 400
                 /\ res'.body.success = FALSE
                 /\ CountOf(inventory'[p], t) = 0]_vars

C21_Witness ==
  /\ req.op = "useItem"
  /\ req.itemType = "ammo_box"
  /\ res.status = 400
  /\ hist.uses[<<req.playerId, "ammo_box">>] = 5
  /\ inventory[req.playerId].ammo_boxes = 0
  /\ inventory[req.playerId].medical_kits = 3

\* C22: every stored enemy has one of the types Zombie, Mutant, Infected,
\* Raider and a health between 20 and 99, and is stored under its own
\* identifier; no step of any operation, Shoot at it and a grenade included,
\* changes or removes a stored enemy; only Spawn enemy adds one, and each
\* Spawn enemy adds exactly one, under an identifier that was not in the
\* store, and returns it.
C22_EnemiesImmutable ==
  [][/\ \A e \in DOMAIN enemies' :
          /\ enemies'[e].id = e
          /\ enemies'[e].type \in {"Zombie", "Mutant", "Infected", "Raider"}
          /\ enemies'[e].health \in 20..99
     /\ \A e \in DOMAIN enemies :
          /\ e \in DOMAIN enemies'
          /\ enemies'[e] = enemies[e]
     /\ IF Answering("spawnEnemy")
        THEN LET id == res'.body.enemy.id IN
             /\ res'.status = 201
             /\ id \notin DOMAIN enemies
             /\ DOMAIN enemies' = (DOMAIN enemies) \cup {id}
             /\ enemies'[id] = res'.body.enemy
        ELSE DOMAIN enemies' = DOMAIN enemies]_vars

C22_Witness ==
  /\ req.op = "shoot"
  /\ res.status = 200
  /\ MapHas(enemies, req.targetEnemyId)
  /\ res.body.result.hit = TRUE
  /\ res.body.result.damage = 80
  /\ enemies[req.targetEnemyId].health = 20
  /\ enemies[req.targetEnemyId].type = "Raider"

\* C23: a shoot request of an existing player with a weapon of the catalog
\* whose ammo is 0 is answered 200 with success=true and a result that has
\* the player, the weapon's id, name and damage, hit, accuracy and timestamp,
\* and the ammo is 0 afterwards; whatever the ammo is, the answer is never a
\* failure.
C23_ShootWithoutAmmo ==
  [][(/\ Answering("shoot")
      /\ MapHas(players, req'.playerId)
      /\ req'.weaponId \in Catalog) =>
       LET w == req'.weaponId IN
       /\ res'.status = 200
       /\ res'.body.success = TRUE
       /\ weapons[w].ammo = 0 =>
            /\ weapons'[w].ammo = 0
            /\ {"playerId", "weaponId", "weaponName", "damage", "hit",
                "accuracy", "timestamp"} \subseteq DOMAIN res'.body.result
            /\ res'.body.result.playerId = req'.playerId
            /\ res'.body.result.weaponId = w
            /\ res'.body.result.weaponName = SeedName[w]
            /\ res'.body.result.damage = SeedDamage[w]
            /\ res'.body.result.hit \in BOOLEAN]_vars

C23_Witness ==
  /\ req.op = "shoot"
  /\ req.weaponId = "sniper"
  /\ res.status = 200
  /\ res.body.success = TRUE
  /\ hist.shots["sniper"] = 6
  /\ weapons["sniper"].ammo = 0

\* C24: a Health check, Get player, Get inventory, Get stats or List weapons
\* request, whatever it is answered, leaves the players, the inventories, the
\* weapons and the enemies as they were; Get player answered 200 returns the
\* stored player and its stored inventory, and Get inventory answered 200 the
\* stored inventory, so the level returned is 1 plus the level-ups made and
\* each count returned is the initial count minus the uses made.
C24_ReadOnly ==
  [][(req = NoRequest /\ req'.op \in {"health", "getPlayer", "getInventory",
                                       "getStats", "listWeapons"}) =>
       /\ players' = players
       /\ inventory' = inventory
       /\ weapons' = weapons
       /\ enemies' = enemies
       /\ (req'.op = "getPlayer" /\ res'.status = 200) =>
            /\ res'.body.player = players[req'.playerId]
            /\ res'.body.inventory = inventory[req'.playerId]
            /\ res'.body.player.level = 1 + hist.levelUps[req'.playerId]
       /\ (req'.op \in {"getPlayer", "getInventory"} /\ res'.status = 200) =>
            /\ res'.body.inventory = inventory[req'.playerId]
            /\ \A t \in ItemTypes :
                 CountOf(res'.body.inventory, t) =
                   InitialCount[t] - hist.uses[<<req'.playerId, t>>]]_vars

C24_Witness ==
  /\ req.op = "getInventory"
  /\ res.status = 200
  /\ res.body.inventory.medical_kits = 2
  /\ res.body.inventory.grenades = 1
  /\ res.body.inventory.ammo_boxes = 5
  /\ hist.uses[<<req.playerId, "medical_kit">>] = 1

\* C25: after every step every stored player has armor 50, position (0,0,0),
\* experience 0 and the weapon list [pistol], and is stored under its own
\* identifier; a player stored before the step has after it the identifier,
\* the name and the creation timestamp it had, which for a player just
\* created are those the Create player answer carries.
C25_FixedPlayerFields ==
  [][/\ \A p \in DOMAIN players' :
          /\ players'[p].armor = 50
          /\ players'[p].position = [x |-> 0, y |-> 0, z |-> 0]
          /\ players'[p].experience = 0
          /\ players'[p].weapons = <<"pistol">>
          /\ players'[p].id = p
     /\ \A p \in DOMAIN players :
          /\ p \in DOMAIN players'
          /\ players'[p].id = players[p].id
          /\ players'[p].name = players[p].name
          /\ players'[p].createdAt = players[p].createdAt
     /\ Answering("createPlayer") =>
          LET new == res'.body.player IN
          /\ players'[new.id].name = new.name
          /\ players'[new.id].createdAt = new.createdAt
          /\ new.createdAt \in Timestamps]_vars

C25_Witness ==
  /\ req.op = "levelUp"
  /\ res.status = 200
  /\ players[req.playerId].level = 3
  /\ players[req.playerId].armor = 50
  /\ players[req.playerId].experience = 0
  /\ players[req.playerId].name = "TestPlayer"
  /\ hist.uses[<<req.playerId, "medical_kit">>] = 1

\* C26: no step makes the health of a stored player smaller, and after every
\* step the health of every stored player is 100. A medical-kit use answered
\* 200 reports health 100 and changes the medical-kit count of that player's
\* inventory and nothing else; a Level up leaves the health it found.
C26_HealthAlwaysFull ==
  [][/\ \A p \in DOMAIN players' : players'[p].health = 100
     /\ \A p \in DOMAIN players : players'[p].health >= players[p].health
     /\ (Answering("useItem") /\ req'.itemType = "medical_kit"
           /\ res'.status = 200) =>
          LET id == req'.playerId IN
          /\ res'.body.playerHealth = 100
          /\ players' = players
          /\ weapons' = weapons
          /\ enemies' = enemies
          /\ DOMAIN inventory' = DOMAIN inventory
          /\ \A p \in DOMAIN inventory \ {id} : inventory'[p] = inventory[p]
          /\ inventory'[id] =
               [inventory[id] EXCEPT !.medical_kits = inventory'[id].medical_kits]
          /\ inventory'[id].medical_kits # inventory[id].medical_kits
     /\ (Answering("levelUp") /\ res'.status = 200) =>
          players'[req'.playerId].health = players[req'.playerId].health]_vars

C26_Witness ==
  /\ req.op = "useItem"
  /\ req.itemType = "medical_kit"
  /\ res.status = 200
  /\ res.body.playerHealth = 100
  /\ hist.levelUps[req.playerId] = 1
  /\ players[req.playerId].health = 100
  /\ inventory[req.playerId].medical_kits = 2

\* C27: after every step the level of every stored player is 1 plus the
\* number of Level up requests answered 200 for that player, hence at least
\* 1; no step makes it smaller; a Level up answered 200 makes it one larger
\* whatever it was; and a step that is not such a Level up for that player
\* leaves it.
C27_LevelCountsLevelUps ==
  [][/\ \A p \in DOMAIN players' :
          /\ players'[p].level = 1 + hist'.levelUps[p]
          /\ players'[p].level >= 1
     /\ \A p \in DOMAIN players :
          /\ players'[p].level >= players[p].level
          /\ IF Answering("levelUp") /\ req'.playerId = p
             THEN /\ res'.status = 200
                  /\ players'[p].level = players[p].level + 1
                  /\ res'.body.player.level = players'[p].level
             ELSE players'[p].level = players[p].level]_vars

C27_Witness ==
  /\ req.op = "levelUp"
  /\ res.status = 200
  /\ MapSize(players) = 2
  /\ players[req.playerId].level = 6
  /\ hist.levelUps[req.playerId] = 5
  /\ \E p \in DOMAIN players : p # req.playerId /\ players[p].level = 1

====
